---- MODULE Spec2Model ----
(***************************************************************************)
(* CelestiaSearchTool::call (src/src/celestia_search_tool.rs): one GET to  *)
(* the block-stats endpoint, status check, JSON parse, error-payload       *)
(* check, extraction of 15 fields with defaults, and the rendered summary. *)
(*                                                                         *)
(* Text is modelled as a sequence of one-character strings, so that        *)
(* formatting, JSON parsing and integer parsing are computed character by  *)
(* character.  An unsigned 64-bit integer is modelled by its canonical     *)
(* decimal digits (a sequence over 0..9 without leading zeros, <<0>> for   *)
(* zero), because its range exceeds that of the integers used here.        *)
(***************************************************************************)
EXTENDS Integers, Sequences, FiniteSets, TLC

VARIABLES pc, args, url, requests, calls, awaits, transport, status, text, data, celestia_option, result

vars == <<pc, args, url, requests, calls, awaits, transport, status, text, data, celestia_option, result>>

(* ------------------------------ bounds -------------------------------- *)

\* Number of invocations of call in one behaviour.
MaxCalls == 2

\* Largest number of fields of one response that are missing or wrong-typed
\* together (one field alone takes every value of FieldVariants).
MaxDegraded == 2

(* ------------------------------- text --------------------------------- *)

DigitChars == <<"0", "1", "2", "3", "4", "5", "6", "7", "8", "9">>

IsDigit(c) == \E d \in 1..10 : DigitChars[d] = c

\* char::to_digit(10) on an ASCII digit.
DigitVal(c) == (CHOOSE d \in 1..10 : DigitChars[d] = c) - 1

\* Whether needle occurs in hay as a contiguous run of characters.
Contains(hay, needle) ==
    \E i \in 0..(Len(hay) - Len(needle)) :
        \A j \in 1..Len(needle) : hay[i + j] = needle[j]

\* Display of an unsigned integer: its decimal digits, no sign, no padding.
RECURSIVE ToDecimal(_)
ToDecimal(n) ==
    IF n < 10 THEN <<DigitChars[n + 1]>>
    ELSE ToDecimal(n \div 10) \o <<DigitChars[(n % 10) + 1]>>

(* ------------------------- str::parse::<u64> -------------------------- *)

\* u64::MAX = 18446744073709551615 as decimal digits.
U64_MAX == <<1, 8, 4, 4, 6, 7, 4, 4, 0, 7, 3, 7, 0, 9, 5, 5, 1, 6, 1, 5>>

\* a <= b for two canonical digit sequences.
DigitsLeq(a, b) ==
    \/ Len(a) < Len(b)
    \/ /\ Len(a) = Len(b)
       /\ \/ a = b
          \/ \E i \in 1..Len(a) :
                /\ \A j \in 1..(i - 1) : a[j] = b[j]
                /\ a[i] < b[i]

\* acc.checked_mul(10)?.checked_add(d)? : NoneU64 on overflow.
NoneU64 == <<>>

CheckedMulAdd(acc, d) ==
    LET r == IF acc = <<0>> THEN <<d>> ELSE Append(acc, d)
    IN  IF DigitsLeq(r, U64_MAX) THEN r ELSE NoneU64

\* The digit loop of from_str_radix: fold from the left, stop on the first
\* character that is no digit or on overflow.
RECURSIVE ParseDigits(_, _, _)
ParseDigits(s, i, acc) ==
    IF i > Len(s) THEN acc
    ELSE IF ~IsDigit(s[i]) THEN NoneU64
    ELSE LET r == CheckedMulAdd(acc, DigitVal(s[i]))
         IN  IF r = NoneU64 THEN NoneU64 ELSE ParseDigits(s, i + 1, r)

\* s.parse::<u64>(): Err (NoneU64) on the empty string, on a lone sign, on any
\* non-digit (a '-' is no sign for an unsigned type), on overflow; one leading
\* '+' is accepted.
ParseU64(s) ==
    IF Len(s) = 0 THEN NoneU64
    ELSE IF Len(s) = 1 /\ s[1] \in {"+", "-"} THEN NoneU64
    ELSE IF s[1] = "+" THEN ParseDigits(s, 2, <<0>>)
    ELSE ParseDigits(s, 1, <<0>>)

\* .parse::<u64>().unwrap_or(0)
ParseU64OrZero(s) ==
    LET r == ParseU64(s) IN IF r = NoneU64 THEN <<0>> ELSE r

(* ------------------------- serde_json::Value -------------------------- *)

\* A Value is a record [t, s, kv]: t its JSON type, s the characters of a
\* string (or the lexeme of a number or literal), kv the members of an object
\* in document order (elements of an array, with empty keys).
JNull == [t |-> "null", s |-> <<"n", "u", "l", "l">>, kv |-> <<>>]

JBool(lex) == [t |-> "bool", s |-> lex, kv |-> <<>>]

JNum(lex) == [t |-> "number", s |-> lex, kv |-> <<>>]

JStr(chars) == [t |-> "string", s |-> chars, kv |-> <<>>]

JArr(items) == [t |-> "array", s |-> <<>>, kv |-> items]

JObj(members) == [t |-> "object", s |-> <<>>, kv |-> members]

Member(k, v) == [k |-> k, v |-> v]

\* Option<&Value> / Option<&str>
None == [some |-> FALSE, v |-> JNull]

Some(v) == [some |-> TRUE, v |-> v]

\* Value::get(key) with a string key: the member of an object (the last one
\* parsed under that key, as Map::insert overwrites), None for a missing key
\* and for every value that is no object.
ValueGet(val, key) ==
    IF val.t # "object" THEN None
    ELSE LET hits == {n \in 1..Len(val.kv) : val.kv[n].k = key}
         IN  IF hits = {} THEN None
             ELSE Some(val.kv[CHOOSE n \in hits : \A m \in hits : m <= n].v)

\* Option<&Value>::and_then(|v| v.as_str()): Some only for a JSON string.
AndThenAsStr(opt) ==
    IF opt.some /\ opt.v.t = "string" THEN [some |-> TRUE, v |-> opt.v.s]
    ELSE [some |-> FALSE, v |-> <<>>]

\* Option<&str>::unwrap_or(default)
UnwrapOr(opt, default) == IF opt.some THEN opt.v ELSE default

(* ----------------------- serde_json::from_str ------------------------- *)

\* The parser covers objects, arrays, strings without escapes, integer
\* numbers, the three literals and blanks between tokens.  A parse step
\* returns [ok, v, i, err]: the value and the index after it, or the error.
PErr(msg) == [ok |-> FALSE, v |-> JNull, i |-> 0, err |-> msg]

POk(v, i) == [ok |-> TRUE, v |-> v, i |-> i, err |-> <<>>]

ErrEof == <<"E", "O", "F">>

ErrExpectedValue == <<"e", "x", "p", "e", "c", "t", "e", "d", " ", "v", "a", "l", "u", "e">>

ErrSyntax == <<"s", "y", "n", "t", "a", "x">>

ErrTrailing == <<"t", "r", "a", "i", "l", "i", "n", "g">>

\* The first index >= i that holds no blank (Len(s) + 1 at the end).
RECURSIVE SkipWs(_, _)
SkipWs(s, i) ==
    IF i > Len(s) THEN Len(s) + 1
    ELSE IF s[i] # " " THEN i
    ELSE SkipWs(s, i + 1)

\* The index of the first quote at or after i (0 when there is none).
RECURSIVE FindQuote(_, _)
FindQuote(s, i) ==
    IF i > Len(s) THEN 0
    ELSE IF s[i] = "\"" THEN i
    ELSE FindQuote(s, i + 1)

\* s[i] is the opening quote: the characters up to the closing quote.
ParseString(s, i) ==
    LET j == FindQuote(s, i + 1)
    IN  IF j = 0 THEN PErr(ErrEof)
        ELSE POk(JStr(SubSeq(s, i + 1, j - 1)), j + 1)

\* The first index >= i that holds no digit (Len(s) + 1 at the end).
RECURSIVE SkipDigits(_, _)
SkipDigits(s, i) ==
    IF i > Len(s) THEN Len(s) + 1
    ELSE IF ~IsDigit(s[i]) THEN i
    ELSE SkipDigits(s, i + 1)

\* -?(0|[1-9][0-9]*)
ParseNumber(s, i) ==
    LET d == IF s[i] = "-" THEN i + 1 ELSE i
        e == SkipDigits(s, d)
    IN  IF e = d THEN PErr(ErrSyntax)
        ELSE IF s[d] = "0" /\ e > d + 1 THEN PErr(ErrSyntax)
        ELSE POk(JNum(SubSeq(s, i, e - 1)), e)

ParseLiteral(s, i, lex, v) ==
    IF i + Len(lex) - 1 > Len(s) THEN PErr(ErrEof)
    ELSE IF SubSeq(s, i, i + Len(lex) - 1) = lex THEN POk(v, i + Len(lex))
    ELSE PErr(ErrExpectedValue)

LitNull == <<"n", "u", "l", "l">>

LitTrue == <<"t", "r", "u", "e">>

LitFalse == <<"f", "a", "l", "s", "e">>

RECURSIVE ParseValue(_, _), ParseMembers(_, _, _), ParseElements(_, _, _)

\* After '{' or ',': a key, ':', a value, then ',' or '}'.
ParseMembers(s, i, acc) ==
    LET k0 == SkipWs(s, i)
    IN  IF k0 > Len(s) THEN PErr(ErrEof)
        ELSE IF s[k0] # "\"" THEN PErr(ErrSyntax)
        ELSE LET key == ParseString(s, k0)
             IN  IF ~key.ok THEN key
                 ELSE LET c == SkipWs(s, key.i)
                      IN  IF c > Len(s) THEN PErr(ErrEof)
                          ELSE IF s[c] # ":" THEN PErr(ErrSyntax)
                          ELSE LET val == ParseValue(s, c + 1)
                               IN  IF ~val.ok THEN val
                                   ELSE LET n == SkipWs(s, val.i)
                                            acc2 == Append(acc, Member(key.v.s, val.v))
                                        IN  IF n > Len(s) THEN PErr(ErrEof)
                                            ELSE IF s[n] = "," THEN ParseMembers(s, n + 1, acc2)
                                            ELSE IF s[n] = "}" THEN POk(JObj(acc2), n + 1)
                                            ELSE PErr(ErrSyntax)

\* After '[' or ',': a value, then ',' or ']'.
ParseElements(s, i, acc) ==
    LET val == ParseValue(s, i)
    IN  IF ~val.ok THEN val
        ELSE LET n == SkipWs(s, val.i)
                 acc2 == Append(acc, Member(<<>>, val.v))
             IN  IF n > Len(s) THEN PErr(ErrEof)
                 ELSE IF s[n] = "," THEN ParseElements(s, n + 1, acc2)
                 ELSE IF s[n] = "]" THEN POk(JArr(acc2), n + 1)
                 ELSE PErr(ErrSyntax)

ParseValue(s, i) ==
    LET b == SkipWs(s, i)
    IN  IF b > Len(s) THEN PErr(ErrEof)
        ELSE IF s[b] = "\"" THEN ParseString(s, b)
        ELSE IF s[b] = "-" \/ IsDigit(s[b]) THEN ParseNumber(s, b)
        ELSE IF s[b] = "n" THEN ParseLiteral(s, b, LitNull, JNull)
        ELSE IF s[b] = "t" THEN ParseLiteral(s, b, LitTrue, JBool(LitTrue))
        ELSE IF s[b] = "f" THEN ParseLiteral(s, b, LitFalse, JBool(LitFalse))
        ELSE IF s[b] = "{" THEN
            LET m == SkipWs(s, b + 1)
            IN  IF m > Len(s) THEN PErr(ErrEof)
                ELSE IF s[m] = "}" THEN POk(JObj(<<>>), m + 1)
                ELSE ParseMembers(s, m, <<>>)
        ELSE IF s[b] = "[" THEN
            LET m == SkipWs(s, b + 1)
            IN  IF m > Len(s) THEN PErr(ErrEof)
                ELSE IF s[m] = "]" THEN POk(JArr(<<>>), m + 1)
                ELSE ParseElements(s, m, <<>>)
        ELSE PErr(ErrExpectedValue)

\* serde_json::from_str::<Value>(text): one value, then only blanks.
FromStr(s) ==
    LET r == ParseValue(s, 1)
    IN  IF ~r.ok THEN r
        ELSE IF SkipWs(s, r.i) <= Len(s) THEN PErr(ErrTrailing)
        ELSE r

(* ------------------------ CelestiaSearchTool -------------------------- *)

API_ENDPOINT == <<"h", "t", "t", "p", "s", ":", "/", "/", "a", "p", "i", "-", "m", "a", "i", "n", "n", "e", "t", ".", "c", "e", "l", "e", "n", "i", "u", "m", ".", "i", "o", "/", "v", "1", "/", "b", "l", "o", "c", "k">>

\* format!("{}/{}/stats", API_ENDPOINT, args.height)
Url(height) == API_ENDPOINT \o <<"/">> \o ToDecimal(height) \o <<"/", "s", "t", "a", "t", "s">>

\* A local variable of call: <<>> before its assignment, <<value>> after.
Unset == <<>>

Val(x) == <<x>>

\* CelestiaSearchError
HttpRequestFailed(detail) == [kind |-> "HttpRequestFailed", detail |-> detail]

ApiError(detail) == [kind |-> "ApiError", detail |-> detail]

\* Result::Ok(output)
Ok(output) == [kind |-> "Ok", detail |-> output]

\* StatusCode::is_success: 200..=299
IsSuccess(code) == 200 <= code /\ code < 300

\* StatusCode::canonical_reason for the codes the model draws.
CanonicalReason(code) ==
    CASE code = 200 -> <<"O", "K">>
      [] code = 299 -> <<"<", "u", "n", "k", "n", "o", "w", "n", " ", "s", "t", "a", "t", "u", "s", " ", "c", "o", "d", "e", ">">>
      [] code = 300 -> <<"M", "u", "l", "t", "i", "p", "l", "e", " ", "C", "h", "o", "i", "c", "e", "s">>
      [] code = 404 -> <<"N", "o", "t", " ", "F", "o", "u", "n", "d">>
      [] code = 500 -> <<"I", "n", "t", "e", "r", "n", "a", "l", " ", "S", "e", "r", "v", "e", "r", " ", "E", "r", "r", "o", "r">>

\* Display of StatusCode: the code, a blank, the reason.
StatusDisplay(code) == ToDecimal(code) \o <<" ">> \o CanonicalReason(code)

\* A variant of StatusDetail that leaves the body text out of the detail.
StatusDetail_NoBody(code, body) ==
    <<"S", "t", "a", "t", "u", "s", ":", " ">> \o StatusDisplay(code)

\* format!("Status: {}, Response: {}", status, text)
StatusDetail(code, body) ==
    <<"S", "t", "a", "t", "u", "s", ":", " ">> \o StatusDisplay(code) \o <<",", " ", "R", "e", "s", "p", "o", "n", "s", "e", ":", " ">> \o body

\* The literal of unwrap_or("Unknown error").
UnknownError == <<"U", "n", "k", "n", "o", "w", "n", " ", "e", "r", "r", "o", "r">>

\* A variant of ErrorMessage that labels the message.
ErrorMessage_Prefixed(error) ==
    <<"A", "P", "I", " ", "e", "r", "r", "o", "r", ":", " ">> \o UnwrapOr(AndThenAsStr(ValueGet(error, <<"m", "e", "s", "s", "a", "g", "e">>)), UnknownError)

\* The message of an error payload: error.get("message").and_then(as_str)
\* .unwrap_or("Unknown error").
ErrorMessage(error) ==
    UnwrapOr(AndThenAsStr(ValueGet(error, <<"m", "e", "s", "s", "a", "g", "e">>)), UnknownError)

\* The literal of unwrap_or("0").
DefaultText == <<"0">>

\* data.get(key).and_then(as_str).unwrap_or("0").parse::<u64>().unwrap_or(0)
GetU64(json, key) ==
    ParseU64OrZero(UnwrapOr(AndThenAsStr(ValueGet(json, key)), DefaultText))

\* data.get(key).and_then(as_str).unwrap_or("0")
GetStr(json, key) == UnwrapOr(AndThenAsStr(ValueGet(json, key)), DefaultText)

\* A variant of MakeCelestiaOption whose gas_used block was copied from gas_limit
\* and kept its key.
MakeCelestiaOption_CopyPaste(json) ==
    [ blobs_count |-> GetU64(json, <<"b", "l", "o", "b", "s", "_", "c", "o", "u", "n", "t">>),
      blobs_size |-> GetU64(json, <<"b", "l", "o", "b", "s", "_", "s", "i", "z", "e">>),
      block_time |-> GetU64(json, <<"b", "l", "o", "c", "k", "_", "t", "i", "m", "e">>),
      bytes_in_block |-> GetU64(json, <<"b", "y", "t", "e", "s", "_", "i", "n", "_", "b", "l", "o", "c", "k">>),
      commissions |-> GetStr(json, <<"c", "o", "m", "m", "i", "s", "s", "i", "o", "n", "s">>),
      events_count |-> GetU64(json, <<"e", "v", "e", "n", "t", "s", "_", "c", "o", "u", "n", "t">>),
      fee |-> GetStr(json, <<"f", "e", "e">>),
      fill_rate |-> GetStr(json, <<"f", "i", "l", "l", "_", "r", "a", "t", "e">>),
      gas_limit |-> GetU64(json, <<"g", "a", "s", "_", "l", "i", "m", "i", "t">>),
      gas_used |-> GetU64(json, <<"g", "a", "s", "_", "l", "i", "m", "i", "t">>),
      inflation_rate |-> GetStr(json, <<"i", "n", "f", "l", "a", "t", "i", "o", "n", "_", "r", "a", "t", "e">>),
      rewards |-> GetStr(json, <<"r", "e", "w", "a", "r", "d", "s">>),
      square_size |-> GetU64(json, <<"s", "q", "u", "a", "r", "e", "_", "s", "i", "z", "e">>),
      supply_change |-> GetStr(json, <<"s", "u", "p", "p", "l", "y", "_", "c", "h", "a", "n", "g", "e">>),
      tx_count |-> GetU64(json, <<"t", "x", "_", "c", "o", "u", "n", "t">>) ]

\* The locals tx_count .. commissions, gathered into the CelestiaOption record.
MakeCelestiaOption(json) ==
    [ blobs_count |-> GetU64(json, <<"b", "l", "o", "b", "s", "_", "c", "o", "u", "n", "t">>),
      blobs_size |-> GetU64(json, <<"b", "l", "o", "b", "s", "_", "s", "i", "z", "e">>),
      block_time |-> GetU64(json, <<"b", "l", "o", "c", "k", "_", "t", "i", "m", "e">>),
      bytes_in_block |-> GetU64(json, <<"b", "y", "t", "e", "s", "_", "i", "n", "_", "b", "l", "o", "c", "k">>),
      commissions |-> GetStr(json, <<"c", "o", "m", "m", "i", "s", "s", "i", "o", "n", "s">>),
      events_count |-> GetU64(json, <<"e", "v", "e", "n", "t", "s", "_", "c", "o", "u", "n", "t">>),
      fee |-> GetStr(json, <<"f", "e", "e">>),
      fill_rate |-> GetStr(json, <<"f", "i", "l", "l", "_", "r", "a", "t", "e">>),
      gas_limit |-> GetU64(json, <<"g", "a", "s", "_", "l", "i", "m", "i", "t">>),
      gas_used |-> GetU64(json, <<"g", "a", "s", "_", "u", "s", "e", "d">>),
      inflation_rate |-> GetStr(json, <<"i", "n", "f", "l", "a", "t", "i", "o", "n", "_", "r", "a", "t", "e">>),
      rewards |-> GetStr(json, <<"r", "e", "w", "a", "r", "d", "s">>),
      square_size |-> GetU64(json, <<"s", "q", "u", "a", "r", "e", "_", "s", "i", "z", "e">>),
      supply_change |-> GetStr(json, <<"s", "u", "p", "p", "l", "y", "_", "c", "h", "a", "n", "g", "e">>),
      tx_count |-> GetU64(json, <<"t", "x", "_", "c", "o", "u", "n", "t">>) ]

\* A variant of Output without the four leading blanks.
Output_NoIndent(option) == <<"T", "h", "e", " ", "g", "a", "s", " ", "f", "e", "e", " ", "i", "s", ":", " ">> \o option.fee

\* format!("    The gas fee is: {}", celestia_option.fee)
Output(option) == <<" ", " ", " ", " ", "T", "h", "e", " ", "g", "a", "s", " ", "f", "e", "e", " ", "i", "s", ":", " ">> \o option.fee

\* A variant of AfterText that parses the body before it looks at the status.
AfterText_ParseFirst(code, body) ==
    LET parsed == FromStr(body)
    IN  IF ~parsed.ok THEN
            [data |-> Unset, option |-> Unset, result |-> HttpRequestFailed(parsed.err)]
        ELSE IF ~IsSuccess(code) THEN
            [data |-> Unset, option |-> Unset, result |-> ApiError(StatusDetail(code, body))]
        ELSE LET error == ValueGet(parsed.v, <<"e", "r", "r", "o", "r">>)
             IN  IF error.some THEN
                     [data |-> Val(parsed.v), option |-> Unset,
                      result |-> ApiError(ErrorMessage(error.v))]
                 ELSE LET option == MakeCelestiaOption(parsed.v)
                      IN  [data |-> Val(parsed.v), option |-> Val(option),
                           result |-> Ok(Output(option))]

\* A variant of AfterText that fails the call when the fee is no string.
AfterText_RequireFee(code, body) ==
    IF ~IsSuccess(code) THEN
        [data |-> Unset, option |-> Unset, result |-> ApiError(StatusDetail(code, body))]
    ELSE LET parsed == FromStr(body)
         IN  IF ~parsed.ok THEN
                 [data |-> Unset, option |-> Unset, result |-> HttpRequestFailed(parsed.err)]
             ELSE LET error == ValueGet(parsed.v, <<"e", "r", "r", "o", "r">>)
                  IN  IF error.some THEN
                          [data |-> Val(parsed.v), option |-> Unset,
                           result |-> ApiError(ErrorMessage(error.v))]
                      ELSE IF ~AndThenAsStr(ValueGet(parsed.v, <<"f", "e", "e">>)).some THEN
                          [data |-> Val(parsed.v), option |-> Unset,
                           result |-> ApiError(UnknownError)]
                      ELSE LET option == MakeCelestiaOption(parsed.v)
                           IN  [data |-> Val(parsed.v), option |-> Val(option),
                                result |-> Ok(Output(option))]

\* A variant of AfterText that reports an error payload before it looks at the
\* status.
AfterText_PayloadFirst(code, body) ==
    LET parsed == FromStr(body)
        error == IF parsed.ok THEN ValueGet(parsed.v, <<"e", "r", "r", "o", "r">>) ELSE None
    IN  IF error.some THEN
            [data |-> Val(parsed.v), option |-> Unset,
             result |-> ApiError(ErrorMessage(error.v))]
        ELSE IF ~IsSuccess(code) THEN
            [data |-> Unset, option |-> Unset, result |-> ApiError(StatusDetail(code, body))]
        ELSE IF ~parsed.ok THEN
            [data |-> Unset, option |-> Unset, result |-> HttpRequestFailed(parsed.err)]
        ELSE LET option == MakeCelestiaOption(parsed.v)
             IN  [data |-> Val(parsed.v), option |-> Val(option),
                  result |-> Ok(Output(option))]

\* A variant of AfterText that takes an error member that is null for none.
AfterText_NullIsNoError(code, body) ==
    IF ~IsSuccess(code) THEN
        [data |-> Unset, option |-> Unset, result |-> ApiError(StatusDetail(code, body))]
    ELSE LET parsed == FromStr(body)
         IN  IF ~parsed.ok THEN
                 [data |-> Unset, option |-> Unset, result |-> HttpRequestFailed(parsed.err)]
             ELSE LET error == ValueGet(parsed.v, <<"e", "r", "r", "o", "r">>)
                  IN  IF error.some /\ error.v.t # "null" THEN
                          [data |-> Val(parsed.v), option |-> Unset,
                           result |-> ApiError(ErrorMessage(error.v))]
                      ELSE LET option == MakeCelestiaOption(parsed.v)
                           IN  [data |-> Val(parsed.v), option |-> Val(option),
                                result |-> Ok(Output(option))]

\* The rest of call once the body text is there (lines 85-201): the locals
\* data and celestia_option as far as they get assigned, and the result.
AfterText(code, body) ==
    IF ~IsSuccess(code) THEN
        [data |-> Unset, option |-> Unset, result |-> ApiError(StatusDetail(code, body))]
    ELSE LET parsed == FromStr(body)
         IN  IF ~parsed.ok THEN
                 [data |-> Unset, option |-> Unset, result |-> HttpRequestFailed(parsed.err)]
             ELSE LET error == ValueGet(parsed.v, <<"e", "r", "r", "o", "r">>)
                  IN  IF error.some THEN
                          [data |-> Val(parsed.v), option |-> Unset,
                           result |-> ApiError(ErrorMessage(error.v))]
                      ELSE LET option == MakeCelestiaOption(parsed.v)
                           IN  [data |-> Val(parsed.v), option |-> Val(option),
                                result |-> Ok(Output(option))]

(* ------------------------------ inputs -------------------------------- *)

\* CelestiaSearchArgs.height
Heights == {1, 9999}

\* Status codes of the response: inside and outside 200..=299, both edges.
StatusCodes == {200, 299, 300, 404}

\* e.to_string() of a reqwest error.
TransportErrors == {<<"c", "o", "n", "n", "e", "c", "t", "i", "o", "n", " ", "r", "e", "f", "u", "s", "e", "d">>}

Quoted(chars) == <<"\"">> \o chars \o <<"\"">>

\* The 15 keys of the response, in the order of the documented shape.
ResponseKeys ==
    << <<"t", "x", "_", "c", "o", "u", "n", "t">>,
       <<"b", "l", "o", "c", "k", "_", "t", "i", "m", "e">>,
       <<"g", "a", "s", "_", "l", "i", "m", "i", "t">>,
       <<"g", "a", "s", "_", "u", "s", "e", "d">>,
       <<"s", "q", "u", "a", "r", "e", "_", "s", "i", "z", "e">>,
       <<"b", "y", "t", "e", "s", "_", "i", "n", "_", "b", "l", "o", "c", "k">>,
       <<"e", "v", "e", "n", "t", "s", "_", "c", "o", "u", "n", "t">>,
       <<"b", "l", "o", "b", "s", "_", "c", "o", "u", "n", "t">>,
       <<"b", "l", "o", "b", "s", "_", "s", "i", "z", "e">>,
       <<"f", "e", "e">>,
       <<"s", "u", "p", "p", "l", "y", "_", "c", "h", "a", "n", "g", "e">>,
       <<"i", "n", "f", "l", "a", "t", "i", "o", "n", "_", "r", "a", "t", "e">>,
       <<"f", "i", "l", "l", "_", "r", "a", "t", "e">>,
       <<"r", "e", "w", "a", "r", "d", "s">>,
       <<"c", "o", "m", "m", "i", "s", "s", "i", "o", "n", "s">> >>

NumFields == Len(ResponseKeys)

\* A well-formed response: every field a string, numeric ones string-encoded.
BaselineValues ==
    << Quoted(<<"5">>),
       Quoted(<<"1", "7", "0", "0", "0", "0", "0", "0", "0", "0">>),
       Quoted(<<"4", "2", "9", "4", "9", "6", "7", "2", "9", "6">>),
       Quoted(<<"3", "1", "1">>),
       Quoted(<<"6", "4">>),
       Quoted(<<"9", "8", "7", "6", "5">>),
       Quoted(<<"2", "1">>),
       Quoted(<<"3">>),
       Quoted(<<"4", "0", "9", "6">>),
       Quoted(<<"1", "2", "3", "4">>),
       Quoted(<<"-", "3", ".", "5">>),
       Quoted(<<"0", ".", "0", "5", "2", "7">>),
       Quoted(<<"0", ".", "2", "5">>),
       Quoted(<<"8", "8">>),
       Quoted(<<"7", ".", "5">>) >>

\* The text of a JSON object with the given value lexeme under each key; an
\* empty lexeme leaves the key out.
RECURSIVE RenderMembers(_, _, _)
RenderMembers(lexemes, n, first) ==
    IF n > Len(lexemes) THEN <<>>
    ELSE IF lexemes[n] = <<>> THEN RenderMembers(lexemes, n + 1, first)
    ELSE (IF first THEN <<>> ELSE <<",">>)
         \o Quoted(ResponseKeys[n]) \o <<":">> \o lexemes[n]
         \o RenderMembers(lexemes, n + 1, FALSE)

RenderObject(lexemes) == <<"{">> \o RenderMembers(lexemes, 1, TRUE) \o <<"}">>

\* What one field may hold instead of its baseline: nothing, a JSON number,
\* null, an object, and strings that do and do not parse as u64.
FieldVariants ==
    { <<>>, <<"5">>, LitNull, <<"{", "}">>,
      Quoted(<<>>),
      Quoted(<<"1", "2", "a">>),
      Quoted(<<"+", "7">>),
      Quoted(<<"0", "0", "7">>),
      Quoted(<<"-", "1">>),
      Quoted(<<" ", "7">>),
      Quoted(<<"0", ".", "5">>),
      Quoted(<<"1", "8", "4", "4", "6", "7", "4", "4", "0", "7", "3", "7", "0", "9", "5", "5", "1", "6", "1", "5">>),
      Quoted(<<"1", "8", "4", "4", "6", "7", "4", "4", "0", "7", "3", "7", "0", "9", "5", "5", "1", "6", "1", "6">>),
      Quoted(<<"9", "9", "9", "9", "9", "9", "9", "9", "9", "9", "9", "9", "9", "9", "9", "9", "9", "9", "9", "9">>) }

\* What several fields hold together when they are degraded: nothing (the key
\* is missing) or a JSON number (wrong-typed).
DegradedVariants == { <<>>, <<"5">> }

OneFieldBodies ==
    { RenderObject([BaselineValues EXCEPT ![n] = r]) :
        n \in 1..NumFields, r \in FieldVariants }

DegradedSets ==
    { S \in SUBSET (1..NumFields) : Cardinality(S) <= MaxDegraded \/ S = 1..NumFields }

DegradedBodies ==
    { RenderObject([n \in 1..NumFields |-> IF n \in S THEN r ELSE BaselineValues[n]]) :
        S \in DegradedSets, r \in DegradedVariants }

\* Values of an error member that carry a string message.
MessageErrorValues ==
    { <<"{", "\"", "m", "e", "s", "s", "a", "g", "e", "\"", ":", "\"", "b", "l", "o", "c", "k", " ", "n", "o", "t", " ", "i", "n", "d", "e", "x", "e", "d", "\"", "}">>,
      <<"{", "\"", "m", "e", "s", "s", "a", "g", "e", "\"", ":", "\"", "\"", ",", "\"", "c", "o", "d", "e", "\"", ":", "7", "}">> }

\* Values of an error member without one: every other JSON type, an object
\* without message, a message that is no string.
OtherErrorValues ==
    { <<"n", "u", "l", "l">>,
      <<"t", "r", "u", "e">>,
      <<"7">>,
      <<"\"", "b", "o", "o", "m", "\"">>,
      <<"[", "]">>,
      <<"[", "\"", "m", "e", "s", "s", "a", "g", "e", "\"", "]">>,
      <<"{", "}">>,
      <<"{", "\"", "c", "o", "d", "e", "\"", ":", "7", "}">>,
      <<"{", "\"", "m", "e", "s", "s", "a", "g", "e", "\"", ":", "5", "}">>,
      <<"{", "\"", "m", "e", "s", "s", "a", "g", "e", "\"", ":", "n", "u", "l", "l", "}">>,
      <<"{", "\"", "m", "e", "s", "s", "a", "g", "e", "\"", ":", "{", "\"", "m", "e", "s", "s", "a", "g", "e", "\"", ":", "\"", "d", "e", "e", "p", "\"", "}", "}">> }

ErrorValues == MessageErrorValues \cup OtherErrorValues

\* An object with the error member alone.
ErrorOnly(lexeme) == <<"{", "\"", "e", "r", "r", "o", "r", "\"", ":">> \o lexeme \o <<"}">>

\* The well-formed response with an error member after its 15 fields.
ErrorAfterFields(lexeme) ==
    LET fields == RenderObject(BaselineValues)
    IN  SubSeq(fields, 1, Len(fields) - 1) \o <<",", "\"", "e", "r", "r", "o", "r", "\"", ":">> \o lexeme \o <<"}">>

\* Bodies with a string error.message at the top level.
MessageBodies ==
    { ErrorOnly(v) : v \in MessageErrorValues }
        \cup { ErrorAfterFields(v) : v \in MessageErrorValues }
        \cup { <<"{", "\"", "e", "r", "r", "o", "r", "\"", ":", " ", "{", "\"", "m", "e", "s", "s", "a", "g", "e", "\"", ":", " ", "\"", "b", "l", "o", "c", "k", " ", "n", "o", "t", " ", "i", "n", "d", "e", "x", "e", "d", "\"", "}", "}">>,
            <<"{", "\"", "e", "r", "r", "o", "r", "\"", ":", "{", "\"", "m", "e", "s", "s", "a", "g", "e", "\"", ":", "\"", "l", "a", "t", "e", "\"", "}", ",", "\"", "f", "e", "e", "\"", ":", "\"", "1", "2", "3", "4", "\"", "}">> }

\* Bodies with an error member, at the top level and elsewhere.
ErrorBodies ==
    MessageBodies
        \cup { ErrorOnly(v) : v \in OtherErrorValues }
        \cup { ErrorAfterFields(v) : v \in OtherErrorValues }
        \cup { <<"{", "\"", "f", "e", "e", "\"", ":", "\"", "7", "\"", ",", "\"", "d", "a", "t", "a", "\"", ":", "{", "\"", "e", "r", "r", "o", "r", "\"", ":", "{", "\"", "m", "e", "s", "s", "a", "g", "e", "\"", ":", "\"", "i", "n", "n", "e", "r", "\"", "}", "}", "}">>,
            <<"[", "{", "\"", "e", "r", "r", "o", "r", "\"", ":", "{", "\"", "m", "e", "s", "s", "a", "g", "e", "\"", ":", "\"", "i", "n", " ", "a", "r", "r", "a", "y", "\"", "}", "}", "]">> }

\* Valid JSON that is no object, a repeated key, an unknown key, blanks.
OtherJsonBodies ==
    { <<"n", "u", "l", "l">>,
      <<"t", "r", "u", "e">>,
      <<"4", "2">>,
      <<"\"", "f", "e", "e", "\"">>,
      <<"[", "]">>,
      <<"[", "{", "\"", "f", "e", "e", "\"", ":", "\"", "9", "\"", "}", "]">>,
      <<"{", "}">>,
      <<"{", "\"", "f", "e", "e", "\"", ":", "\"", "1", "\"", ",", "\"", "f", "e", "e", "\"", ":", "\"", "2", "\"", "}">>,
      <<"{", "\"", "f", "e", "e", "\"", ":", "\"", "3", "\"", ",", "\"", "h", "e", "i", "g", "h", "t", "\"", ":", "\"", "9", "\"", "}">>,
      <<" ", "{", " ", "\"", "f", "e", "e", "\"", " ", ":", " ", "\"", "1", "2", "3", "4", "\"", " ", ",", " ", "\"", "t", "x", "_", "c", "o", "u", "n", "t", "\"", " ", ":", " ", "\"", "5", "\"", " ", "}", " ">> }

\* Text that is no JSON.
InvalidBodies ==
    { <<"n", "o", "t", " ", "f", "o", "u", "n", "d">>,
      <<>>,
      <<"{">>,
      <<"{", "\"", "f", "e", "e", "\"", ":", "\"", "1", "\"">>,
      <<"{", "\"", "f", "e", "e", "\"", ":", "\"", "1", "\"", ",", "}">>,
      <<"{", "\"", "f", "e", "e", "\"", ":", "\"", "1", "\"", "}", " ", "x">>,
      <<"{", "f", "e", "e", ":", "1", "}">>,
      <<"n", "u", "l">>,
      <<"{", "\"", "f", "e", "e", "\"", ":", "0", "0", "7", "}">>,
      <<"{", "\"", "f", "e", "e", "\"", " ", "\"", "1", "\"", "}">> }

Bodies == OneFieldBodies \cup DegradedBodies \cup ErrorBodies \cup OtherJsonBodies \cup InvalidBodies

(* ------------------------------ actions ------------------------------- *)

Init ==
    /\ pc = "idle"
    /\ args = Unset
    /\ url = Unset
    /\ requests = 0
    /\ calls = 0
    /\ awaits = 0
    /\ transport = "none"
    /\ status = Unset
    /\ text = Unset
    /\ data = Unset
    /\ celestia_option = Unset
    /\ result = Unset

\* Entry of call up to the first await (lines 67-73): the URL is formatted and
\* reqwest::get sends one GET to it (requests counts the GETs sent so far).
\* Locals of an earlier invocation are gone.
Call(height) ==
    /\ pc \in {"idle", "returned"}
    /\ calls < MaxCalls
    /\ calls' = calls + 1
    /\ args' = Val([height |-> height])
    /\ url' = Val(Url(height))
    /\ requests' = requests + 1
    /\ awaits' = 1
    /\ transport' = "none"
    /\ status' = Unset
    /\ text' = Unset
    /\ data' = Unset
    /\ celestia_option' = Unset
    /\ result' = Unset
    /\ pc' = "get"

\* reqwest::get(url).await is an Err (line 74): the ? returns it.
GetFails(e) ==
    /\ pc = "get"
    /\ transport' = "send_failed"
    /\ result' = Val(HttpRequestFailed(e))
    /\ pc' = "returned"
    /\ UNCHANGED <<args, url, requests, calls, awaits, status, text, data, celestia_option>>

\* A variant of GetResponds in which the body comes with the response, without
\* a second await.
GetResponds_NoSuspend(code) ==
    /\ pc = "get"
    /\ transport' = "head"
    /\ status' = Val(code)
    /\ pc' = "text"
    /\ UNCHANGED <<args, url, requests, calls, awaits, text, data, celestia_option, result>>

\* reqwest::get(url).await is a response (lines 72-81): its status is kept and
\* the body is awaited.
GetResponds(code) ==
    /\ pc = "get"
    /\ transport' = "head"
    /\ status' = Val(code)
    /\ awaits' = awaits + 1
    /\ pc' = "text"
    /\ UNCHANGED <<args, url, requests, calls, text, data, celestia_option, result>>

\* A variant of TextFails that sends the request again.
TextFails_Retry(e) ==
    /\ pc = "text"
    /\ transport' = "none"
    /\ requests' = requests + 1
    /\ status' = Unset
    /\ awaits' = 1
    /\ pc' = "get"
    /\ UNCHANGED <<args, url, calls, text, data, celestia_option, result>>

\* response.text().await is an Err (line 83): the ? returns it.
TextFails(e) ==
    /\ pc = "text"
    /\ transport' = "body_failed"
    /\ result' = Val(HttpRequestFailed(e))
    /\ pc' = "returned"
    /\ UNCHANGED <<args, url, requests, calls, awaits, status, text, data, celestia_option>>

\* response.text().await is the body (lines 80-202): the rest of call runs to
\* its return without another await.
TextArrives(body) ==
    /\ pc = "text"
    /\ transport' = "body"
    /\ text' = Val(body)
    /\ LET rest == AfterText(status[1], body)
       IN  /\ data' = rest.data
           /\ celestia_option' = rest.option
           /\ result' = Val(rest.result)
    /\ pc' = "returned"
    /\ UNCHANGED <<args, url, requests, calls, awaits, status>>

Next ==
    \/ \E height \in Heights : Call(height)
    \/ \E e \in TransportErrors : GetFails(e)
    \/ \E code \in StatusCodes : GetResponds(code)
    \/ \E e \in TransportErrors : TextFails(e)
    \/ \E body \in Bodies : TextArrives(body)

Spec == Init /\ [][Next]_vars

(* ------------------------------ claims -------------------------------- *)

Returned == pc = "returned"

\* The response arrived whole: status and body text.
BodyRead == Returned /\ transport = "body"

SuccessStatus == status # Unset /\ status[1] \in 200..299

\* The JSON document has a member under key at its top level.
HasMember(doc, key) ==
    doc.t = "object" /\ \E n \in 1..Len(doc.kv) : doc.kv[n].k = key

\* The value of that member (of the last one, should the key repeat).
MemberValue(doc, key) ==
    LET last == CHOOSE n \in 1..Len(doc.kv) :
                    /\ doc.kv[n].k = key
                    /\ \A m \in (n + 1)..Len(doc.kv) : doc.kv[m].k # key
    IN  doc.kv[last].v

\* The member under key is a JSON string.
HasString(doc, key) == HasMember(doc, key) /\ MemberValue(doc, key).t = "string"

\* chars is the decimal notation of an integer in 0 .. 2^64 - 1: digits only,
\* after an optional '+', at least one of them.
IsU64Text(chars) ==
    LET digits == IF Len(chars) > 0 /\ chars[1] = "+" THEN Tail(chars) ELSE chars
        zeros == {n \in 0..Len(digits) : \A m \in 1..n : digits[m] = "0"}
        lead == CHOOSE n \in zeros : \A m \in zeros : m <= n
        significant == Len(digits) - lead
    IN  /\ Len(digits) > 0
        /\ \A n \in 1..Len(digits) : IsDigit(digits[n])
        /\ \/ significant < Len(U64_MAX)
           \/ /\ significant = Len(U64_MAX)
              /\ DigitsLeq([n \in 1..significant |-> DigitVal(digits[lead + n])], U64_MAX)

\* The integer that decimal notation denotes, as canonical digits.
IntegerOf(chars) ==
    LET digits == IF chars[1] = "+" THEN Tail(chars) ELSE chars
        nonzero == {n \in 1..Len(digits) : digits[n] # "0"}
    IN  IF nonzero = {} THEN <<0>>
        ELSE LET first == CHOOSE n \in nonzero : \A m \in nonzero : n <= m
             IN  [n \in 1..(Len(digits) - first + 1) |-> DigitVal(digits[first + n - 1])]

\* What a numeric field is documented to extract to from a document.
ExpectedNumber(doc, key) ==
    IF HasString(doc, key) /\ IsU64Text(MemberValue(doc, key).s)
    THEN IntegerOf(MemberValue(doc, key).s)
    ELSE <<0>>

\* What a decimal-string field is documented to extract to from a document.
ExpectedString(doc, key) ==
    IF HasString(doc, key) THEN MemberValue(doc, key).s ELSE <<"0">>

SummaryPrefix ==
    <<" ", " ", " ", " ", "T", "h", "e", " ", "g", "a", "s", " ", "f", "e", "e", " ", "i", "s", ":", " ">>

C2_ErrorPayload ==
    (BodyRead /\ SuccessStatus /\ data # Unset /\ HasMember(data[1], <<"e", "r", "r", "o", "r">>)) =>
        LET error == MemberValue(data[1], <<"e", "r", "r", "o", "r">>)
        IN  /\ result[1].kind = "ApiError"
            /\ HasString(error, <<"m", "e", "s", "s", "a", "g", "e">>) =>
                   result[1].detail = MemberValue(error, <<"m", "e", "s", "s", "a", "g", "e">>).s
            /\ ~HasMember(error, <<"m", "e", "s", "s", "a", "g", "e">>) =>
                   result[1].detail = <<"U", "n", "k", "n", "o", "w", "n", " ", "e", "r", "r", "o", "r">>

C2_Witness ==
    /\ BodyRead
    /\ SuccessStatus
    /\ text[1] = <<"{", "\"", "e", "r", "r", "o", "r", "\"", ":", " ", "{", "\"", "m", "e", "s", "s", "a", "g", "e", "\"", ":", " ", "\"", "b", "l", "o", "c", "k", " ", "n", "o", "t", " ", "i", "n", "d", "e", "x", "e", "d", "\"", "}", "}">>
    /\ result[1] = [kind |-> "ApiError", detail |-> <<"b", "l", "o", "c", "k", " ", "n", "o", "t", " ", "i", "n", "d", "e", "x", "e", "d">>]

C4_FieldsIndependent ==
    (Returned /\ result[1].kind = "Ok") =>
        /\ celestia_option # Unset
        /\ celestia_option[1].tx_count = ExpectedNumber(data[1], <<"t", "x", "_", "c", "o", "u", "n", "t">>)
        /\ celestia_option[1].block_time = ExpectedNumber(data[1], <<"b", "l", "o", "c", "k", "_", "t", "i", "m", "e">>)
        /\ celestia_option[1].gas_limit = ExpectedNumber(data[1], <<"g", "a", "s", "_", "l", "i", "m", "i", "t">>)
        /\ celestia_option[1].gas_used = ExpectedNumber(data[1], <<"g", "a", "s", "_", "u", "s", "e", "d">>)
        /\ celestia_option[1].square_size = ExpectedNumber(data[1], <<"s", "q", "u", "a", "r", "e", "_", "s", "i", "z", "e">>)
        /\ celestia_option[1].bytes_in_block = ExpectedNumber(data[1], <<"b", "y", "t", "e", "s", "_", "i", "n", "_", "b", "l", "o", "c", "k">>)
        /\ celestia_option[1].events_count = ExpectedNumber(data[1], <<"e", "v", "e", "n", "t", "s", "_", "c", "o", "u", "n", "t">>)
        /\ celestia_option[1].blobs_count = ExpectedNumber(data[1], <<"b", "l", "o", "b", "s", "_", "c", "o", "u", "n", "t">>)
        /\ celestia_option[1].blobs_size = ExpectedNumber(data[1], <<"b", "l", "o", "b", "s", "_", "s", "i", "z", "e">>)
        /\ celestia_option[1].fee = ExpectedString(data[1], <<"f", "e", "e">>)
        /\ celestia_option[1].supply_change = ExpectedString(data[1], <<"s", "u", "p", "p", "l", "y", "_", "c", "h", "a", "n", "g", "e">>)
        /\ celestia_option[1].inflation_rate = ExpectedString(data[1], <<"i", "n", "f", "l", "a", "t", "i", "o", "n", "_", "r", "a", "t", "e">>)
        /\ celestia_option[1].fill_rate = ExpectedString(data[1], <<"f", "i", "l", "l", "_", "r", "a", "t", "e">>)
        /\ celestia_option[1].rewards = ExpectedString(data[1], <<"r", "e", "w", "a", "r", "d", "s">>)
        /\ celestia_option[1].commissions = ExpectedString(data[1], <<"c", "o", "m", "m", "i", "s", "s", "i", "o", "n", "s">>)

\* One numeric field holds a string beyond u64 and extracts to 0 while its
\* neighbours keep their values.
C4_Witness ==
    /\ Returned
    /\ result[1].kind = "Ok"
    /\ HasString(data[1], <<"g", "a", "s", "_", "u", "s", "e", "d">>)
    /\ MemberValue(data[1], <<"g", "a", "s", "_", "u", "s", "e", "d">>).s = <<"1", "8", "4", "4", "6", "7", "4", "4", "0", "7", "3", "7", "0", "9", "5", "5", "1", "6", "1", "6">>
    /\ celestia_option[1].gas_used = <<0>>
    /\ celestia_option[1].gas_limit = <<4, 2, 9, 4, 9, 6, 7, 2, 9, 6>>
    /\ celestia_option[1].tx_count = <<5>>
    /\ celestia_option[1].fee = <<"1", "2", "3", "4">>

\* C5: every successful call returns four blanks, "The gas fee is: " and the
\* fee string of the document verbatim ("0" without one), whatever the other
\* fields and the height are.
C5_SummaryLine ==
    (Returned /\ result[1].kind = "Ok") =>
        result[1].detail = SummaryPrefix \o ExpectedString(data[1], <<"f", "e", "e">>)

C5_Witness ==
    /\ Returned
    /\ args[1].height = 9999
    /\ data # Unset
    /\ HasString(data[1], <<"f", "e", "e">>)
    /\ ~HasMember(data[1], <<"t", "x", "_", "c", "o", "u", "n", "t">>)
    /\ result[1] = [kind |-> "Ok", detail |-> <<" ", " ", " ", " ", "T", "h", "e", " ", "g", "a", "s", " ", "f", "e", "e", " ", "i", "s", ":", " ", "1", "2", "3", "4">>]

\* C6: a success-status body that is JSON without a top-level error member
\* always ends the call in Ok with the summary, whichever fields are missing,
\* wrong-typed or unparseable; a document that is no object gives the summary
\* of the defaults.
C6_ExtractionNeverFails ==
    (BodyRead /\ SuccessStatus /\ text[1] \notin InvalidBodies) =>
        /\ data # Unset
        /\ ~HasMember(data[1], <<"e", "r", "r", "o", "r">>) =>
               /\ result[1].kind = "Ok"
               /\ celestia_option # Unset
               /\ SubSeq(result[1].detail, 1, Len(SummaryPrefix)) = SummaryPrefix
               /\ data[1].t # "object" => result[1].detail = SummaryPrefix \o <<"0">>

\* All 15 fields are missing or wrong-typed and the call still succeeds.
C6_Witness ==
    /\ BodyRead
    /\ data # Unset
    /\ data[1].t = "object"
    /\ \A n \in 1..NumFields : ~HasString(data[1], ResponseKeys[n])
    /\ \E n \in 1..NumFields : HasMember(data[1], ResponseKeys[n])
    /\ result[1].kind = "Ok"

\* C7 as stated: every call passes exactly one suspension point between entry
\* and return.
C7_OneSuspensionPoint == Returned => awaits = 1

\* C7 amended: a call passes the await of the response and then, unless sending
\* failed, the await of the body: one suspension point when sending failed, two
\* on every other path.
C7_TwoSuspensionPoints ==
    /\ pc = "get" => awaits = 1
    /\ pc = "text" => awaits = 2
    /\ Returned => /\ awaits = 1 <=> transport = "send_failed"
                   /\ awaits = 2 <=> transport \in {"body", "body_failed"}
                   /\ awaits \in {1, 2}

C7_Witness ==
    /\ Returned
    /\ awaits = 2
    /\ result[1].kind = "Ok"

\* C8: every invocation sends exactly one GET, on every path; a returned call
\* has exactly one of the three outcomes, and no outcome before it returns.
C8_OneRequestPerCall ==
    /\ requests = calls
    /\ Returned => /\ result # Unset
                   /\ result[1].kind \in {"Ok", "HttpRequestFailed", "ApiError"}
    /\ pc \in {"get", "text"} => result = Unset

\* The second invocation returned after a failed body read, two GETs in all.
C8_Witness ==
    /\ Returned
    /\ calls = 2
    /\ requests = 2
    /\ transport = "body_failed"
    /\ result[1].kind = "HttpRequestFailed"
\* C9: the checks run in the order request, body read, status, JSON parse,
\* error payload, fields, and the first that fails decides: a non-success
\* status with a body that is no JSON gives ApiError, a non-success status with
\* an error.message body gives ApiError with the status and the raw body (not
\* the message), a failed body read gives HttpRequestFailed whatever the
\* status, and after the status a parse failure comes before the payload check
\* and the payload check before the extraction.
C9_FirstFailingCheckDecides ==
    /\ (BodyRead /\ ~SuccessStatus /\ text[1] \in InvalidBodies) =>
           result[1].kind = "ApiError"
    /\ (BodyRead /\ ~SuccessStatus /\ text[1] \in MessageBodies) =>
           /\ result[1].kind = "ApiError"
           /\ Contains(result[1].detail, ToDecimal(status[1]))
           /\ Len(result[1].detail) > Len(text[1])
           /\ SubSeq(result[1].detail, Len(result[1].detail) - Len(text[1]) + 1,
                     Len(result[1].detail)) = text[1]
    /\ (Returned /\ transport = "body_failed") =>
           /\ status # Unset
           /\ result[1].kind = "HttpRequestFailed"
    /\ (Returned /\ transport = "send_failed") =>
           /\ status = Unset /\ text = Unset
           /\ result[1].kind = "HttpRequestFailed"
    /\ (BodyRead /\ ~SuccessStatus) => (data = Unset /\ celestia_option = Unset)
    /\ (BodyRead /\ SuccessStatus /\ text[1] \in InvalidBodies) =>
           (result[1].kind = "HttpRequestFailed" /\ celestia_option = Unset)
    /\ (BodyRead /\ SuccessStatus /\ text[1] \in MessageBodies) =>
           (result[1].kind = "ApiError" /\ celestia_option = Unset)

C9_Witness ==
    /\ BodyRead
    /\ status[1] = 404
    /\ text[1] = <<"{", "\"", "e", "r", "r", "o", "r", "\"", ":", "{", "\"", "m", "e", "s", "s", "a", "g", "e", "\"", ":", "\"", "b", "l", "o", "c", "k", " ", "n", "o", "t", " ", "i", "n", "d", "e", "x", "e", "d", "\"", "}", "}">>
    /\ result[1].kind = "ApiError"
    /\ result[1].detail # <<"b", "l", "o", "c", "k", " ", "n", "o", "t", " ", "i", "n", "d", "e", "x", "e", "d">>

\* C10: for a success-status body that is a JSON object, a top-level error key
\* makes the call fail with ApiError whatever the type of its value and
\* whatever the 15 fields hold; the detail is error.message when that is a
\* string and "Unknown error" in every other case; without the key the call
\* never returns ApiError.
C10_ErrorKeyDecides ==
    (BodyRead /\ SuccessStatus /\ data # Unset /\ data[1].t = "object") =>
        IF HasMember(data[1], <<"e", "r", "r", "o", "r">>)
        THEN /\ result[1].kind = "ApiError"
             /\ result[1].detail =
                    IF HasString(MemberValue(data[1], <<"e", "r", "r", "o", "r">>), <<"m", "e", "s", "s", "a", "g", "e">>)
                    THEN MemberValue(MemberValue(data[1], <<"e", "r", "r", "o", "r">>), <<"m", "e", "s", "s", "a", "g", "e">>).s
                    ELSE <<"U", "n", "k", "n", "o", "w", "n", " ", "e", "r", "r", "o", "r">>
        ELSE result[1].kind # "ApiError"

\* A null error member after 15 well-formed fields.
C10_Witness ==
    /\ BodyRead
    /\ SuccessStatus
    /\ data # Unset
    /\ \A n \in 1..NumFields : HasString(data[1], ResponseKeys[n])
    /\ HasMember(data[1], <<"e", "r", "r", "o", "r">>)
    /\ MemberValue(data[1], <<"e", "r", "r", "o", "r">>).t = "null"
    /\ result[1] = [kind |-> "ApiError", detail |-> <<"U", "n", "k", "n", "o", "w", "n", " ", "e", "r", "r", "o", "r">>]

====
